---- MODULE Spec2Model ----
(***************************************************************************)
(* Model of the deploy-item resolver of the execution engine               *)
(* (engine_state/executable_deploy_item.rs) and of the                     *)
(* do-nothing-stored-caller test contract.                                 *)
(*                                                                         *)
(* Rust values are encoded as records of a uniform shape so that any two   *)
(* values of one Rust type are comparable:                                 *)
(*   Key                     [kind, id]                                    *)
(*   Option<ContractVersion> [some, v]                                     *)
(*   Result<Option<Key>, _>  [tag, key, name]                              *)
(*   Result<RuntimeArgs, _>  [tag, args, err]                              *)
(***************************************************************************)
EXTENDS Naturals, Sequences, FiniteSets, TLC

\* ------------------------------------------------------------ bounds ----
MaxVersion == 1
MaxArgsLen == 2

\* ------------------------------------------------------------- state -----
VARIABLES
  named_keys,   \* [Accounts -> named-key table] : every account's named_keys()
  deploy,       \* the deploy being processed: [active, item, account]
  self_item,    \* the resolver's ExecutableDeployItem value (self)
  res,          \* what the resolver returned so far: [address, entry_point, args]
  caller        \* the do-nothing-stored-caller session: [args, out]

vars == <<named_keys, deploy, self_item, res, caller>>

\* ------------------------------------------------------- value domains ---
Accounts == {"A", "B"}
Names == {"pos", "Pos"}
Hashes == {"H1", "H2"}
EntryPoints == {"", "bond"}
ModuleCode == {<<7>>}
Bytes == {0, 1}

DEFAULT_ENTRY_POINT_NAME == "call"

KeyHash(h) == [kind |-> "Hash", id |-> h]
KeyURef(u) == [kind |-> "URef", id |-> u]
NoKey == [kind |-> "-", id |-> ""]
Keys == {KeyHash(h) : h \in Hashes} \cup {KeyURef("U1")}
TableKeys == {KeyHash("H1"), KeyURef("U1")}

KeyFromHash(h) == KeyHash(h)

VersionNone == [some |-> FALSE, v |-> 0]
VersionSome(n) == [some |-> TRUE, v |-> n]
Versions == {VersionNone} \cup {VersionSome(n) : n \in 1..MaxVersion}

RECURSIVE SeqsUpTo(_, _)
SeqsUpTo(S, n) ==
  IF n = 0 THEN {<<>>}
  ELSE LET shorter == SeqsUpTo(S, n - 1)
       IN shorter \cup {Append(s, b) : s \in {t \in shorter : Len(t) = n - 1}, b \in S}
ArgBlobs == SeqsUpTo(Bytes, MaxArgsLen)

\* ------------------------------------------------ ExecutableDeployItem ---
ModuleBytes(mb, a) ==
  [variant |-> "ModuleBytes", module_bytes |-> mb, hash |-> "", name |-> "",
   version |-> VersionNone, entry_point |-> "", args |-> a]
StoredContractByHash(h, ep, a) ==
  [variant |-> "StoredContractByHash", module_bytes |-> <<>>, hash |-> h, name |-> "",
   version |-> VersionNone, entry_point |-> ep, args |-> a]
StoredContractByName(n, ep, a) ==
  [variant |-> "StoredContractByName", module_bytes |-> <<>>, hash |-> "", name |-> n,
   version |-> VersionNone, entry_point |-> ep, args |-> a]
StoredVersionedContractByName(n, ver, ep, a) ==
  [variant |-> "StoredVersionedContractByName", module_bytes |-> <<>>, hash |-> "",
   name |-> n, version |-> ver, entry_point |-> ep, args |-> a]
StoredVersionedContractByHash(h, ver, ep, a) ==
  [variant |-> "StoredVersionedContractByHash", module_bytes |-> <<>>, hash |-> h,
   name |-> "", version |-> ver, entry_point |-> ep, args |-> a]
TransferToAccount(a) ==
  [variant |-> "TransferToAccount", module_bytes |-> <<>>, hash |-> "", name |-> "",
   version |-> VersionNone, entry_point |-> "", args |-> a]

ExecutableDeployItems(EP, AB) ==
  {ModuleBytes(mb, a) : mb \in ModuleCode, a \in AB}
  \cup {StoredContractByHash(h, ep, a) : h \in Hashes, ep \in EP, a \in AB}
  \cup {StoredContractByName(n, ep, a) : n \in Names, ep \in EP, a \in AB}
  \cup {StoredVersionedContractByName(n, ver, ep, a) :
          n \in Names, ver \in Versions, ep \in EP, a \in AB}
  \cup {StoredVersionedContractByHash(h, ver, ep, a) :
          h \in Hashes, ver \in Versions, ep \in EP, a \in AB}
  \cup {TransferToAccount(a) : a \in AB}

Items == ExecutableDeployItems(EntryPoints, ArgBlobs)

Moved ==
  [variant |-> "<moved>", module_bytes |-> <<>>, hash |-> "", name |-> "",
   version |-> VersionNone, entry_point |-> "", args |-> <<>>]

\* ---------------------------------------------- Account named-key table --
NamedKeyTables ==
  UNION {[D -> TableKeys] : D \in SUBSET Names}
EmptyTable == [n \in {} |-> NoKey]
named_keys_get(table, name) ==
  IF name \in DOMAIN table
  THEN [some |-> TRUE, key |-> table[name]]
  ELSE [some |-> FALSE, key |-> NoKey]
named_keys_insert(table, name, key) ==
  [n \in (DOMAIN table) \cup {name} |-> IF n = name THEN key ELSE table[n]]
named_keys_remove(table, name) ==
  [n \in (DOMAIN table) \ {name} |-> table[n]]

\* ------------------------------------------------------ Argument codec ---
ArgsUnset == [tag |-> "Unset", args |-> <<>>, err |-> ""]
ArgsOk(ra) == [tag |-> "Ok", args |-> ra, err |-> ""]
ArgsErr(e) == [tag |-> "Err", args |-> <<>>, err |-> e]

deserialize(bytes) ==
  IF Len(bytes) = 0 THEN ArgsErr("EarlyEndOfStream")
  ELSE LET count == bytes[1]
           rest == Len(bytes) - 1
       IN IF rest < count THEN ArgsErr("EarlyEndOfStream")
          ELSE IF rest > count THEN ArgsErr("LeftOverBytes")
          ELSE ArgsOk(SubSeq(bytes, 2, count + 1))

\* ------------------------------------------- impl ExecutableDeployItem ---
AddrUnset == [tag |-> "Unset", key |-> NoKey, name |-> ""]
OkNone == [tag |-> "OkNone", key |-> NoKey, name |-> ""]
OkSome(k) == [tag |-> "OkSome", key |-> k, name |-> ""]
NamedKeyNotFound(n) == [tag |-> "NamedKeyNotFound", key |-> NoKey, name |-> n]
NoMatchArm == [tag |-> "NoMatchArm", key |-> NoKey, name |-> ""]

\* variants of to_contract_hash_key with one plausible slip each
to_contract_hash_key_code_only(self, account) ==
  CASE self.variant \in {"StoredContractByHash", "StoredVersionedContractByHash"} ->
         OkSome(KeyFromHash(self.hash))
    [] self.variant \in {"StoredContractByName", "StoredVersionedContractByName"} ->
         LET found == named_keys_get(account, self.name)
         IN IF found.some /\ found.key.kind = "Hash"
            THEN OkSome(found.key) ELSE NamedKeyNotFound(self.name)
    [] self.variant = "ModuleBytes" -> OkNone
    [] OTHER -> NoMatchArm

to_contract_hash_key_hash_via_table(self, account) ==
  CASE self.variant \in {"StoredContractByHash", "StoredVersionedContractByHash"} ->
         IF \E n \in DOMAIN account : account[n] = KeyFromHash(self.hash)
         THEN OkSome(KeyFromHash(self.hash)) ELSE NamedKeyNotFound(self.hash)
    [] self.variant \in {"StoredContractByName", "StoredVersionedContractByName"} ->
         LET found == named_keys_get(account, self.name)
         IN IF found.some THEN OkSome(found.key) ELSE NamedKeyNotFound(self.name)
    [] self.variant = "ModuleBytes" -> OkNone
    [] OTHER -> NoMatchArm

to_contract_hash_key_any_account(self, account) ==
  CASE self.variant \in {"StoredContractByHash", "StoredVersionedContractByHash"} ->
         OkSome(KeyFromHash(self.hash))
    [] self.variant \in {"StoredContractByName", "StoredVersionedContractByName"} ->
         LET found == named_keys_get(account, self.name)
             holders == {a \in Accounts : self.name \in DOMAIN named_keys[a]}
         IN IF found.some THEN OkSome(found.key)
            ELSE IF holders # {}
            THEN OkSome(named_keys[CHOOSE a \in holders : TRUE][self.name])
            ELSE NamedKeyNotFound(self.name)
    [] self.variant = "ModuleBytes" -> OkNone
    [] OTHER -> NoMatchArm

to_contract_hash_key_needs_version(self, account) ==
  CASE self.variant = "StoredContractByHash" -> OkSome(KeyFromHash(self.hash))
    [] self.variant = "StoredVersionedContractByHash" ->
         IF self.version.some THEN OkSome(KeyFromHash(self.hash)) ELSE OkNone
    [] self.variant \in {"StoredContractByName", "StoredVersionedContractByName"} ->
         LET found == named_keys_get(account, self.name)
         IN IF found.some THEN OkSome(found.key) ELSE NamedKeyNotFound(self.name)
    [] self.variant = "ModuleBytes" -> OkNone
    [] OTHER -> NoMatchArm

to_contract_hash_key(self, account) ==
  CASE self.variant \in {"StoredContractByHash", "StoredVersionedContractByHash"} ->
         OkSome(KeyFromHash(self.hash))
    [] self.variant \in {"StoredContractByName", "StoredVersionedContractByName"} ->
         LET found == named_keys_get(account, self.name)
         IN IF found.some THEN OkSome(found.key) ELSE NamedKeyNotFound(self.name)
    [] self.variant = "ModuleBytes" -> OkNone
    [] OTHER -> NoMatchArm

account_after_inserting_lookup(self, account) ==
  IF self.variant \in {"StoredContractByName", "StoredVersionedContractByName"}
     /\ self.name \notin DOMAIN account
  THEN named_keys_insert(account, self.name, KeyURef("U1"))
  ELSE account
account_after_to_contract_hash_key(self, account) == account

into_runtime_args_transfer_undecoded(self) ==
  IF self.variant = "TransferToAccount" THEN ArgsOk(self.args) ELSE deserialize(self.args)
into_runtime_args(self) == deserialize(self.args)

self_after_into_runtime_args(self) == Moved

EpUnset == [set |-> FALSE, name |-> ""]
EpSet(s) == [set |-> TRUE, name |-> s]

entry_point_name_default_when_empty(self) ==
  IF self.variant \in {"ModuleBytes", "TransferToAccount"} \/ self.entry_point = ""
  THEN DEFAULT_ENTRY_POINT_NAME
  ELSE self.entry_point

entry_point_name(self) ==
  IF self.variant \in {"ModuleBytes", "TransferToAccount"}
  THEN DEFAULT_ENTRY_POINT_NAME
  ELSE self.entry_point

\* ------------------------------------- do-nothing-stored-caller contract --
ENTRY_FUNCTION_NAME == "delegate"
PURSE_NAME_ARG_NAME == "purse_name"

DoNothingContractMetadataKey == 0
DoNothingVersion == 1
PurseName == 2

MissingDoNothingContractMetadataKeyArg == 0
MissingPurseNameArg == 1
ConvertingKeyIntoHash == 2
MissingDoNothingVersion == 3

\* a session argument slot: absent, or a value of one of three types
ArgAbsent == [present |-> FALSE, type |-> "-", key |-> NoKey, num |-> 0, str |-> ""]
ArgKey(k) == [present |-> TRUE, type |-> "Key", key |-> k, num |-> 0, str |-> ""]
ArgU32(n) == [present |-> TRUE, type |-> "u32", key |-> NoKey, num |-> n, str |-> ""]
ArgString(s) == [present |-> TRUE, type |-> "String", key |-> NoKey, num |-> 0, str |-> s]
ArgSlots ==
  {ArgAbsent} \cup {ArgKey(k) : k \in Keys} \cup {ArgU32(n) : n \in 0..MaxVersion}
  \cup {ArgString(s) : s \in {"purse"}}

\* runtime::get_arg::<T>(i): None | Some(Err(_)) | Some(Ok(value))
get_arg(args, i, T) ==
  IF ~args[i].present THEN "None"
  ELSE IF args[i].type # T THEN "SomeErr"
  ELSE "SomeOk"

\* Key::into_hash
into_hash(key) ==
  IF key.kind = "Hash" THEN [some |-> TRUE, hash |-> key.id]
  ELSE [some |-> FALSE, hash |-> ""]

ApiErrorUser(code) == [kind |-> "User", code |-> code]
ApiErrorInvalidArgument == [kind |-> "InvalidArgument", code |-> 0]
NoError == [kind |-> "-", code |-> 0]

SemVer(major, minor, patch) == <<major, minor, patch>>

NotRun ==
  [tag |-> "-", error |-> NoError, calls |-> <<>>]
Revert(e) ==
  [tag |-> "Revert", error |-> e, calls |-> <<>>]
CallVersionedContract(hash, version, entry, purse) ==
  [tag |-> "Returned", error |-> NoError,
   calls |-> <<[hash |-> hash, version |-> version, entry_point |-> entry,
                args |-> <<<<PURSE_NAME_ARG_NAME, purse>>>>]>>]

call_in_index_order(args) ==
  LET a0 == get_arg(args, DoNothingContractMetadataKey, "Key")
      a2 == get_arg(args, PurseName, "String")
      a1 == get_arg(args, DoNothingVersion, "u32")
      contract_metadata_hash == into_hash(args[DoNothingContractMetadataKey].key)
  IN IF a0 = "None" THEN Revert(ApiErrorUser(MissingDoNothingContractMetadataKeyArg))
     ELSE IF a0 = "SomeErr" THEN Revert(ApiErrorInvalidArgument)
     ELSE IF ~contract_metadata_hash.some THEN Revert(ApiErrorUser(ConvertingKeyIntoHash))
     ELSE IF a1 = "None" THEN Revert(ApiErrorUser(MissingDoNothingVersion))
     ELSE IF a1 = "SomeErr" THEN Revert(ApiErrorInvalidArgument)
     ELSE IF a2 = "None" THEN Revert(ApiErrorUser(MissingPurseNameArg))
     ELSE IF a2 = "SomeErr" THEN Revert(ApiErrorInvalidArgument)
     ELSE CallVersionedContract(contract_metadata_hash.hash,
                                SemVer(args[DoNothingVersion].num, 0, 0),
                                ENTRY_FUNCTION_NAME, args[PurseName].str)

call(args) ==
  LET a0 == get_arg(args, DoNothingContractMetadataKey, "Key")
      a2 == get_arg(args, PurseName, "String")
      a1 == get_arg(args, DoNothingVersion, "u32")
      contract_metadata_hash == into_hash(args[DoNothingContractMetadataKey].key)
  IN IF a0 = "None" THEN Revert(ApiErrorUser(MissingDoNothingContractMetadataKeyArg))
     ELSE IF a0 = "SomeErr" THEN Revert(ApiErrorInvalidArgument)
     ELSE IF ~contract_metadata_hash.some THEN Revert(ApiErrorUser(ConvertingKeyIntoHash))
     ELSE IF a2 = "None" THEN Revert(ApiErrorUser(MissingPurseNameArg))
     ELSE IF a2 = "SomeErr" THEN Revert(ApiErrorInvalidArgument)
     ELSE IF a1 = "None" THEN Revert(ApiErrorUser(MissingDoNothingVersion))
     ELSE IF a1 = "SomeErr" THEN Revert(ApiErrorInvalidArgument)
     ELSE CallVersionedContract(contract_metadata_hash.hash,
                                SemVer(args[DoNothingVersion].num, 0, 0),
                                ENTRY_FUNCTION_NAME, args[PurseName].str)

\* ------------------------------------------------------ state values ----
NoDeploy == [active |-> FALSE, item |-> Moved, account |-> "A"]
Deploy(item, a) == [active |-> TRUE, item |-> item, account |-> a]
NoRes == [address |-> AddrUnset, entry_point |-> EpUnset, args |-> ArgsUnset]

CallerIdle == [args |-> [i \in 0..2 |-> ArgAbsent], out |-> NotRun]

\* ------------------------------------------------- resolver operations ---
ToContractHashKey ==
  /\ deploy.active
  /\ self_item # Moved
  /\ res' = [res EXCEPT !.address =
               to_contract_hash_key(self_item, named_keys[deploy.account])]
  /\ named_keys' = [named_keys EXCEPT ![deploy.account] =
               account_after_to_contract_hash_key(self_item, named_keys[deploy.account])]
  /\ UNCHANGED <<deploy, self_item, caller>>

EntryPointName ==
  /\ deploy.active
  /\ self_item # Moved
  /\ res' = [res EXCEPT !.entry_point = EpSet(entry_point_name(self_item))]
  /\ UNCHANGED <<named_keys, deploy, self_item, caller>>

IntoRuntimeArgs ==
  /\ deploy.active
  /\ self_item # Moved
  /\ res' = [res EXCEPT !.args = into_runtime_args(self_item)]
  /\ self_item' = self_after_into_runtime_args(self_item)
  /\ UNCHANGED <<named_keys, deploy, caller>>

\* -------------------------------------------- block-processing pipeline --
SubmitDeploy(item, a) ==
  /\ ~deploy.active
  /\ deploy' = Deploy(item, a)
  /\ self_item' = item
  /\ res' = NoRes
  /\ UNCHANGED <<named_keys, caller>>

Resolved ==
  /\ res.address.tag \in {"OkNone", "OkSome"}
  /\ res.entry_point.set
  /\ res.args.tag = "Ok"

ExecutePut(n, k) ==
  /\ deploy.active
  /\ Resolved
  /\ named_keys' = [named_keys EXCEPT ![deploy.account] =
                      named_keys_insert(named_keys[deploy.account], n, k)]
  /\ deploy' = NoDeploy
  /\ self_item' = Moved
  /\ res' = NoRes
  /\ UNCHANGED caller

ExecuteRemove(n) ==
  /\ deploy.active
  /\ Resolved
  /\ named_keys' = [named_keys EXCEPT ![deploy.account] =
                      named_keys_remove(named_keys[deploy.account], n)]
  /\ deploy' = NoDeploy
  /\ self_item' = Moved
  /\ res' = NoRes
  /\ UNCHANGED caller

FailDeploy ==
  /\ deploy.active
  /\ ~Resolved
  /\ \/ res.address.tag \in {"NamedKeyNotFound", "NoMatchArm"}
     \/ res.args.tag = "Err"
     \/ self_item = Moved
  /\ deploy' = NoDeploy
  /\ self_item' = Moved
  /\ res' = NoRes
  /\ UNCHANGED <<named_keys, caller>>

Init ==
  /\ named_keys = [a \in Accounts |-> EmptyTable]
  /\ deploy = NoDeploy
  /\ self_item = Moved
  /\ res = NoRes
  /\ caller = CallerIdle

Next ==
  \/ \E item \in Items, a \in Accounts : SubmitDeploy(item, a)
  \/ ToContractHashKey
  \/ EntryPointName
  \/ IntoRuntimeArgs
  \/ \E n \in Names, k \in TableKeys : ExecutePut(n, k)
  \/ \E n \in Names : ExecuteRemove(n)
  \/ FailDeploy

Spec == Init /\ [][Next]_vars

\* --------------------- the three operations applied to drawn inputs ------
InitPure ==
  /\ \E t \in NamedKeyTables : named_keys = [a \in Accounts |-> IF a = "A" THEN t ELSE EmptyTable]
  /\ \E item \in Items : deploy = Deploy(item, "A") /\ self_item = item
  /\ res = NoRes
  /\ caller = CallerIdle

NextPure ==
  \/ ToContractHashKey
  \/ EntryPointName
  \/ IntoRuntimeArgs

SpecPure == InitPure /\ [][NextPure]_vars

\* ----------------------------------------- the contract run on drawn args -
Call ==
  /\ caller.out.tag = "-"
  /\ caller' = [caller EXCEPT !.out = call(caller.args)]
  /\ UNCHANGED <<named_keys, deploy, self_item, res>>

InitCaller ==
  /\ named_keys = [a \in Accounts |-> EmptyTable]
  /\ deploy = NoDeploy
  /\ self_item = Moved
  /\ res = NoRes
  /\ \E args \in [0..2 -> ArgSlots] : caller = [args |-> args, out |-> NotRun]

NextCaller == Call

SpecCaller == InitCaller /\ [][NextCaller]_vars

\* ================================================================ claims ==
HashAddressed == {"StoredContractByHash", "StoredVersionedContractByHash"}
NameAddressed == {"StoredContractByName", "StoredVersionedContractByName"}
Versioned == {"StoredVersionedContractByName", "StoredVersionedContractByHash"}
Inline == {"ModuleBytes", "TransferToAccount"}
AddressReturned == deploy.active /\ res.address.tag # "Unset"

\* C1: to_contract_hash_key is defined for all six variants; for ModuleBytes
\* and for TransferToAccount it returns Ok(None) whatever the account, and only
\* the four stored/versioned variants yield Ok(Some(_)) or an error.
C1_InlineVariantsResolveToNone ==
  AddressReturned =>
    /\ res.address.tag # "NoMatchArm"
    /\ deploy.item.variant \in Inline => res.address = OkNone
    /\ res.address.tag \in {"OkSome", "NamedKeyNotFound"} =>
         deploy.item.variant \in HashAddressed \cup NameAddressed

\* C2: for the two by-name variants, whatever earlier deploys did to the
\* account's table, the call fails with NamedKeyNotFound(name), carrying the
\* requested name, exactly when that name is absent from the table, and
\* otherwise returns Ok(Some(k)) for the key k stored under the name, of
\* whatever kind.
C2_NamedKeyLookup ==
  (AddressReturned /\ deploy.item.variant \in NameAddressed) =>
    LET table == named_keys[deploy.account]
        name == deploy.item.name
    IN /\ res.address.tag \in {"OkSome", "NamedKeyNotFound"}
       /\ res.address.tag = "NamedKeyNotFound" <=> name \notin DOMAIN table
       /\ res.address.tag = "NamedKeyNotFound" => res.address = NamedKeyNotFound(name)
       /\ name \in DOMAIN table => res.address = OkSome(table[name])

C2_Witness ==
  /\ AddressReturned
  /\ deploy.item.variant = "StoredVersionedContractByName"
  /\ deploy.item.name = "Pos"
  /\ "pos" \notin DOMAIN named_keys[deploy.account]
  /\ res.address = OkSome(KeyURef("U1"))

\* C3: for the two by-hash variants the call returns Ok(Some(Key::Hash(h)))
\* for the embedded hash h, never an error, and the same for every named-key
\* table (empty, or mapping names to other keys).
C3_HashAddressIgnoresTable ==
  (AddressReturned /\ deploy.item.variant \in HashAddressed) =>
    /\ res.address = OkSome(KeyHash(deploy.item.hash))
    /\ \A t \in NamedKeyTables : to_contract_hash_key(deploy.item, t) = res.address

C3_Witness ==
  /\ AddressReturned
  /\ deploy.item.variant = "StoredVersionedContractByHash"
  /\ deploy.item.hash = "H2"
  /\ named_keys[deploy.account] = [n \in {"pos"} |-> KeyHash("H1")]
  /\ res.address = OkSome(KeyHash("H2"))

\* C4: entry_point_name returns DEFAULT_ENTRY_POINT_NAME for ModuleBytes and
\* TransferToAccount and the entry_point field itself, unchanged, for the four
\* stored/versioned variants, the empty string included.
C4_EntryPointName ==
  (deploy.active /\ res.entry_point.set) =>
    /\ deploy.item.variant \in Inline => res.entry_point.name = DEFAULT_ENTRY_POINT_NAME
    /\ deploy.item.variant \notin Inline => res.entry_point.name = deploy.item.entry_point

C4_Witness ==
  /\ deploy.active
  /\ deploy.item.variant = "StoredContractByName"
  /\ deploy.item.entry_point = ""
  /\ res.entry_point = EpSet("")

\* C5: into_runtime_args is the codec's decode of the item's args bytes and of
\* nothing else: every item with the same args bytes gives the same result,
\* which is Ok(the whole mapping) or the codec's error, never a part of it.
C5_ArgsDecodedUniformly ==
  (deploy.active /\ res.args.tag # "Unset") =>
    /\ res.args = deserialize(deploy.item.args)
    /\ \A other \in Items :
         other.args = deploy.item.args => into_runtime_args(other) = res.args
    /\ res.args.tag = "Err" => res.args.args = <<>>
    /\ res.args.tag = "Ok" =>
         /\ deploy.item.args # <<>>
         /\ res.args.args = Tail(deploy.item.args)
         /\ Len(res.args.args) = Head(deploy.item.args)

C5_Witness ==
  /\ deploy.active
  /\ deploy.item.variant = "TransferToAccount"
  /\ deploy.item.args = <<1>>
  /\ res.args = ArgsErr("EarlyEndOfStream")

\* C6: a call of to_contract_hash_key or of entry_point_name, successful or
\* failing with NamedKeyNotFound, leaves every account's named-key table and
\* the deploy item as they were; a failed lookup creates no entry.
ResolverCall ==
  /\ deploy.active
  /\ deploy' = deploy
  /\ res'.args = res.args
C6_ResolutionMutatesNothing ==
  [][ResolverCall =>
       /\ named_keys' = named_keys
       /\ self_item' = self_item
       /\ self_item' = deploy.item
       /\ res'.address.tag = "NamedKeyNotFound" =>
            res'.address.name \notin DOMAIN named_keys'[deploy.account]]_vars

C6_Witness ==
  /\ deploy.active
  /\ deploy.item.variant = "StoredContractByName"
  /\ res.address = NamedKeyNotFound("pos")
  /\ res.entry_point.set
  /\ self_item = deploy.item
  /\ named_keys[deploy.account] = [n \in {"Pos"} |-> KeyHash("H1")]

\* C8: for the two versioned variants neither to_contract_hash_key nor
\* entry_point_name looks at the version: None and every Some(v) give the same
\* results, the item keeps its version, and a by-hash item with version None
\* resolves to Some(Key::Hash(hash)).
WithVersion(item, ver) == [item EXCEPT !.version = ver]
C8_VersionPassedThrough ==
  (deploy.active /\ deploy.item.variant \in Versioned) =>
    /\ self_item # Moved => self_item.version = deploy.item.version
    /\ res.address.tag # "Unset" =>
         \A ver \in Versions :
           to_contract_hash_key(WithVersion(deploy.item, ver), named_keys[deploy.account])
             = res.address
    /\ res.entry_point.set =>
         \A ver \in Versions :
           entry_point_name(WithVersion(deploy.item, ver)) = res.entry_point.name
    /\ (res.address.tag # "Unset" /\ deploy.item.variant = "StoredVersionedContractByHash") =>
         res.address = OkSome(KeyHash(deploy.item.hash))

C8_Witness ==
  /\ deploy.active
  /\ deploy.item.variant = "StoredVersionedContractByHash"
  /\ deploy.item.version = VersionNone
  /\ res.address = OkSome(KeyHash("H2"))
  /\ res.entry_point = EpSet("bond")
  /\ self_item.version = VersionNone

\* C9: a by-name item of account A is resolved in A's table alone: a name that
\* only another account's table holds is NamedKeyNotFound for A, and a name
\* both tables hold resolves to A's key, whatever the other account stores.
C9_AccountIsolation ==
  (AddressReturned /\ deploy.item.variant \in NameAddressed) =>
    \A b \in Accounts \ {deploy.account} :
      LET own == named_keys[deploy.account]
          other == named_keys[b]
          name == deploy.item.name
      IN /\ (name \in DOMAIN other /\ name \notin DOMAIN own) =>
              res.address = NamedKeyNotFound(name)
         /\ (name \in DOMAIN other /\ name \in DOMAIN own) =>
              res.address = OkSome(own[name])
         /\ (name \notin DOMAIN other /\ name \in DOMAIN own) =>
              res.address = OkSome(own[name])

C9_Witness ==
  /\ AddressReturned
  /\ deploy.account = "A"
  /\ deploy.item.variant = "StoredContractByName"
  /\ deploy.item.name = "pos"
  /\ "pos" \notin DOMAIN named_keys["A"]
  /\ "pos" \in DOMAIN named_keys["B"]
  /\ res.address = NamedKeyNotFound("pos")

\* C10: the caller contract calls call_versioned_contract only when all three
\* arguments are present and well typed and argument 0 is a hash key; otherwise
\* it reverts at the first failing check, in the order argument 0 missing
\* (User 0) or mistyped (InvalidArgument), argument 0 no hash key (User 2),
\* purse name missing (User 1) or mistyped, version missing (User 3) or
\* mistyped; a missing argument gives its own user code and a revert makes no
\* contract call.
Present(i) == caller.args[i].present
WellTyped(i, T) == Present(i) /\ caller.args[i].type = T
KeyOk == WellTyped(0, "Key") /\ caller.args[0].key.kind = "Hash"
C10_CallerChecksInOrder ==
  caller.out.tag # "-" =>
    LET out == caller.out
        expected ==
          IF ~Present(0) THEN ApiErrorUser(0)
          ELSE IF ~WellTyped(0, "Key") THEN ApiErrorInvalidArgument
          ELSE IF ~KeyOk THEN ApiErrorUser(2)
          ELSE IF ~Present(2) THEN ApiErrorUser(1)
          ELSE IF ~WellTyped(2, "String") THEN ApiErrorInvalidArgument
          ELSE IF ~Present(1) THEN ApiErrorUser(3)
          ELSE IF ~WellTyped(1, "u32") THEN ApiErrorInvalidArgument
          ELSE NoError
    IN /\ out.tag = "Returned" <=>
            (KeyOk /\ WellTyped(2, "String") /\ WellTyped(1, "u32"))
       /\ out.tag = "Revert" => (out.calls = <<>> /\ out.error = expected)
       /\ out.tag = "Returned" =>
            /\ Len(out.calls) = 1
            /\ out.calls[1].hash = caller.args[0].key.id
            /\ out.calls[1].version = <<caller.args[1].num, 0, 0>>
            /\ out.calls[1].entry_point = "delegate"
            /\ out.calls[1].args = <<<<"purse_name", caller.args[2].str>>>>
       /\ out.error = ApiErrorInvalidArgument =>
            \E i \in 0..2 : Present(i) /\ ~WellTyped(i, <<"Key", "u32", "String">>[i + 1])
       /\ Cardinality({MissingDoNothingContractMetadataKeyArg, MissingPurseNameArg,
                       MissingDoNothingVersion, ConvertingKeyIntoHash}) = 4

C10_Witness ==
  /\ caller.out = Revert(ApiErrorUser(1))
  /\ KeyOk
  /\ ~Present(2)
  /\ ~Present(1)

====
